---- MODULE Spec2Model ----
(***************************************************************************)
(* Mass-univariate regression and tuning models                           *)
(* (python/thunder/regression/base.py).                                   *)
(*                                                                         *)
(* Numbers.  A numpy float is modelled by an exact value of the extended   *)
(* rationals: <<n, d, e>> stands for (n / d) * 10^e, and d = 0 encodes the *)
(* IEEE specials (<<1,0,0>> = +inf, <<-1,0,0>> = -inf, <<0,0,0>> = NaN).    *)
(* The decimal exponent keeps 1E-06 and its powers inside the integer      *)
(* range of the checker.  The representation is canonical (d > 0,          *)
(* gcd(n, d) = 1, neither n nor d divisible by 5, zero = <<0,1,0>>), so     *)
(* two numbers are the same value exactly when they are the same tuple.    *)
(* Rounding of binary floating point is not modelled.                      *)
(***************************************************************************)
EXTENDS Integers, Sequences, FiniteSets, Bags, TLC

\* ------------------------------------------------------------- numbers

AbsInt(i) == IF i < 0 THEN -i ELSE i

SgnInt(i) == IF i < 0 THEN -1 ELSE IF i > 0 THEN 1 ELSE 0

RECURSIVE Gcd(_, _)
Gcd(a, b) == IF b = 0 THEN a ELSE Gcd(b, a % b)

RECURSIVE Pow10(_)
Pow10(k) == IF k = 0 THEN 1 ELSE 10 * Pow10(k - 1)

NaN == <<0, 0, 0>>

PosInf == <<1, 0, 0>>

NegInf == <<-1, 0, 0>>

Zero == <<0, 1, 0>>

One == <<1, 1, 0>>

\* n/d * 10^e with the common factor g of n and d taken out
Cancel(n, d, e, g) == <<n \div g, d \div g, e>>

\* n/d * 10^e with d > 0 and n # 0, brought to lowest terms
Reduce(n, d, e) == Cancel(n, d, e, Gcd(AbsInt(n), d))

\* moves every factor 5 of n and d into the decimal exponent
RECURSIVE Strip5(_)
Strip5(q) ==
    IF q[1] % 5 = 0 THEN Strip5(Reduce(q[1] \div 5, 2 * q[2], q[3] + 1))
    ELSE IF q[2] % 5 = 0 THEN Strip5(Reduce(2 * q[1], q[2] \div 5, q[3] - 1))
    ELSE q

\* the canonical number for (n / d) * 10^e; d = 0 gives a special
Num(n, d, e) ==
    IF d = 0 THEN <<SgnInt(n), 0, 0>>
    ELSE IF n = 0 THEN Zero
    ELSE Strip5(Reduce(SgnInt(d) * n, AbsInt(d), e))

FromInt(i) == Num(i, 1, 0)

IsNaN(a) == a = NaN

IsInf(a) == a[2] = 0 /\ a[1] # 0

IsFinite(a) == a[2] # 0

Sgn(a) == SgnInt(a[1])

Neg(a) == <<-a[1], a[2], a[3]>>

MinInt(a, b) == IF a < b THEN a ELSE b

\* a + b of finite numbers over the common exponent e, g = gcd of the
\* denominators
AddAligned(a, b, e, g) ==
    Num(a[1] * (b[2] \div g) * Pow10(a[3] - e) + b[1] * (a[2] \div g) * Pow10(b[3] - e),
        (a[2] \div g) * b[2], e)

Add(a, b) ==
    IF IsNaN(a) \/ IsNaN(b) THEN NaN
    ELSE IF IsInf(a) THEN (IF IsInf(b) /\ b # a THEN NaN ELSE a)
    ELSE IF IsInf(b) THEN b
    ELSE IF a = Zero THEN b
    ELSE IF b = Zero THEN a
    ELSE AddAligned(a, b, MinInt(a[3], b[3]), Gcd(a[2], b[2]))

Sub(a, b) == Add(a, Neg(b))

\* a * b of finite numbers, the cross factors g1, g2 taken out first
MulCross(a, b, g1, g2) ==
    Num((a[1] \div g1) * (b[1] \div g2), (a[2] \div g2) * (b[2] \div g1), a[3] + b[3])

Mul(a, b) ==
    IF IsNaN(a) \/ IsNaN(b) THEN NaN
    ELSE IF IsInf(a) \/ IsInf(b)
         THEN (IF a = Zero \/ b = Zero THEN NaN ELSE <<Sgn(a) * Sgn(b), 0, 0>>)
    ELSE MulCross(a, b, Gcd(AbsInt(a[1]), b[2]), Gcd(AbsInt(b[1]), a[2]))

\* IEEE division: x/0 is +-inf, 0/0 and inf/inf are NaN
Div(a, b) ==
    IF IsNaN(a) \/ IsNaN(b) THEN NaN
    ELSE IF IsInf(a) THEN (IF IsInf(b) THEN NaN
                           ELSE <<Sgn(a) * (IF Sgn(b) < 0 THEN -1 ELSE 1), 0, 0>>)
    ELSE IF IsInf(b) THEN Zero
    ELSE IF b = Zero THEN <<Sgn(a), 0, 0>>
    ELSE Mul(a, Num(b[2] * SgnInt(b[1]), AbsInt(b[1]), -b[3]))

\* n * 10^e < d for n, d > 0, without forming a power of ten larger than needed
RECURSIVE LtPow(_, _, _)
LtPow(n, d, e) ==
    IF e = 0 THEN n < d
    ELSE IF e > 0 THEN (IF n >= d THEN FALSE ELSE LtPow(n * 10, d, e - 1))
    ELSE (IF n < d THEN TRUE ELSE LtPow(n, d * 10, e + 1))

\* q < 1 for a finite q > 0
LtOne(q) == LtPow(q[1], q[2], q[3])

\* a < b for finite a, b > 0, decided on the quotient a / b
LtPos(a, b) == LtOne(Div(a, b))

\* a < b; any comparison with NaN is false
Lt(a, b) ==
    IF IsNaN(a) \/ IsNaN(b) THEN FALSE
    ELSE IF a = b THEN FALSE
    ELSE IF Sgn(a) # Sgn(b) THEN Sgn(a) < Sgn(b)
    ELSE IF IsInf(a) \/ IsInf(b) THEN (IF Sgn(a) > 0 THEN IsInf(b) ELSE IsInf(a))
    ELSE IF Sgn(a) > 0 THEN LtPos(a, b)
    ELSE LtPos(Neg(b), Neg(a))

\* a >= b and a > b as numpy compares
Ge(a, b) == ~IsNaN(a) /\ ~IsNaN(b) /\ ~Lt(a, b)

Gt(a, b) == Lt(b, a)

\* a == b as numpy compares: NaN equals nothing
Eq(a, b) == ~IsNaN(a) /\ ~IsNaN(b) /\ a = b

Sq(a) == Mul(a, a)

AbsNum(a) == <<AbsInt(a[1]), a[2], a[3]>>

\* ------------------------------------------------------ arrays (numpy)

\* a 1-D array is a tuple of numbers, a 2-D array a tuple of rows; Arr turns
\* the function [i \in 1..n |-> e] into the tuple of its values
Arr(f) == f \o <<>>


\* numpy.sum of a 1-D array
RECURSIVE SumSeq(_)
SumSeq(v) == IF v = <<>> THEN Zero ELSE Add(SumSeq(SubSeq(v, 1, Len(v) - 1)), v[Len(v)])

\* numpy.mean of a 1-D array
MeanOf(v) == Div(SumSeq(v), FromInt(Len(v)))

\* the builtin min over the elements of a 1-D array (numpy's min is not
\* imported): the first element, replaced by each later one that is smaller
Lesser(m, e) == IF Lt(e, m) THEN e ELSE m

RECURSIVE MinOf(_)
MinOf(v) ==
    IF Len(v) <= 1 THEN v[1]
    ELSE Lesser(MinOf(SubSeq(v, 1, Len(v) - 1)), v[Len(v)])

Rows(m) == Len(m)

Cols(m) == Len(m[1])

\* dot / inner of two 1-D arrays
DotVV(a, b) == SumSeq(Arr([i \in 1..Len(a) |-> Mul(a[i], b[i])]))

\* dot(matrix, vector)
DotMV(m, v) == Arr([i \in 1..Rows(m) |-> DotVV(m[i], v)])

\* dot(vector, matrix)
DotVM(b, m) == Arr([j \in 1..Cols(m) |-> SumSeq(Arr([i \in 1..Rows(m) |-> Mul(b[i], m[i][j])]))])

Transpose(m) == Arr([j \in 1..Cols(m) |-> Arr([i \in 1..Rows(m) |-> m[i][j]])])

\* dot(matrix, matrix)
DotMM(a, b) == Arr([i \in 1..Rows(a) |-> DotVM(a[i], b)])

\* concatenate((ones((1, n)), m))
WithOnes(m) == <<Arr([j \in 1..Cols(m) |-> One])>> \o m

VecSub(a, b) == Arr([i \in 1..Len(a) |-> Sub(a[i], b[i])])

\* array - scalar, array + scalar, array / scalar (broadcast)
VecSubS(a, c) == Arr([i \in 1..Len(a) |-> Sub(a[i], c)])

VecAddS(a, c) == Arr([i \in 1..Len(a) |-> Add(a[i], c)])

VecDivS(a, c) == Arr([i \in 1..Len(a) |-> Div(a[i], c)])

\* sum((a - b) ** 2)
SumSqDiff(a, b) == SumSeq(Arr([i \in 1..Len(a) |-> Sq(Sub(a[i], b[i]))]))

\* the matrix without row i and column j
Minor(m, i, j) ==
    Arr([r \in 1..(Rows(m) - 1) |->
           Arr([c \in 1..(Cols(m) - 1) |->
                  m[IF r < i THEN r ELSE r + 1][IF c < j THEN c ELSE c + 1]])])

RECURSIVE Det(_)
Det(m) ==
    IF Rows(m) = 0 THEN One
    ELSE IF Rows(m) = 1 THEN m[1][1]
    ELSE SumSeq(Arr([j \in 1..Cols(m) |->
                   Mul(Mul(FromInt(IF j % 2 = 1 THEN 1 ELSE -1), m[1][j]),
                       Det(Minor(m, 1, j)))]))

\* the inverse of m from its determinant d: the adjugate over d
InvByDet(m, d) ==
    IF d = Zero
    THEN [raised |-> TRUE, m |-> <<>>]
    ELSE [raised |-> FALSE,
          m |-> Arr([i \in 1..Rows(m) |-> Arr([j \in 1..Cols(m) |->
                   Div(Mul(FromInt(IF (i + j) % 2 = 0 THEN 1 ELSE -1),
                           Det(Minor(m, j, i))), d)])])]

\* scipy.linalg.inv: raises LinAlgError on a singular matrix
Inv(m) == InvByDet(m, Det(m))

\* an integer array as a float array
AsFloat(m) == Arr([i \in 1..Rows(m) |-> Arr([j \in 1..Cols(m) |-> FromInt(m[i][j])])])

VecFloat(v) == Arr([i \in 1..Len(v) |-> FromInt(v[i])])

\* ------------------------------------------------------------- models

\* the literal 1E-06 of BilinearRegressionModel.get and the tuning models
Eps == Num(1, 1, -6)

\* a model instance: its class and attributes (<<>> for those the class lacks)
Instance(kind, x, x_hat, x1, x2, x1_hat, s) ==
    [kind |-> kind, x |-> x, x_hat |-> x_hat, x1 |-> x1, x2 |-> x2,
     x1_hat |-> x1_hat, s |-> s]

NoModel == Instance("none", <<>>, <<>>, <<>>, <<>>, <<>>, <<>>)

\* what a constructor call gives: the instance, or the exception raised
Built(m) == [raised |-> "none", model |-> m]

Raised(e) == [raised |-> e, model |-> NoModel]

\* MeanRegressionModel.__init__: x_hat = (x.T / sum(x, axis=1)).T
MeanRegressionModel(modelfile) ==
    LET x == AsFloat(modelfile)
        x_hat == Arr([i \in 1..Rows(x) |-> VecDivS(x[i], SumSeq(x[i]))])
    IN  Built(Instance("MeanRegressionModel", x, x_hat, <<>>, <<>>, <<>>, <<>>))

\* LinearRegressionModel.__init__: x = [1; x], x_hat = inv(x x^T) x
LinearRegressionModel(modelfile) ==
    LET x == WithOnes(AsFloat(modelfile))
        i == Inv(DotMM(x, Transpose(x)))
    IN  IF i.raised THEN Raised("LinAlgError")
        ELSE Built(Instance("LinearRegressionModel", x, DotMM(i.m, x),
                            <<>>, <<>>, <<>>, <<>>))

\* BilinearRegressionModel.__init__: x1_hat = inv(x1 x1^T) x1
BilinearRegressionModel(modelfile) ==
    LET x1 == AsFloat(modelfile[1])
        x2 == AsFloat(modelfile[2])
        i == Inv(DotMM(x1, Transpose(x1)))
    IN  IF i.raised THEN Raised("LinAlgError")
        ELSE Built(Instance("BilinearRegressionModel", <<>>, <<>>, x1, x2,
                            DotMM(i.m, x1), <<>>))

\* TuningModel.__init__ with the class of the variant constructed
TuningModel(kind, modelfile) ==
    Built(Instance(kind, <<>>, <<>>, <<>>, <<>>, <<>>, VecFloat(modelfile)))

\* what a call get(y) gives: arr is the content of the caller's array y when
\* the call ends, raised the exception (if any), ret the value returned
Returned(arr, ret) == [arr |-> arr, raised |-> "none", ret |-> ret]

Thrown(arr, e) == [arr |-> arr, raised |-> e, ret |-> <<>>]

\* a faulty variant of RSquared, without the test sst == 0: the statistic of a
\* constant response must tell it from RSquared
RSquaredUnguarded(sse, sst) == Sub(One, Div(sse, sst))

\* r2 = 0 if sst == 0 else 1 - sse / sst
RSquared(sse, sst) == IF Eq(sst, Zero) THEN Zero ELSE Sub(One, Div(sse, sst))

\* sst = sum((y - mean(y)) ** 2)
Sst(y, m) == SumSeq(Arr([i \in 1..Len(y) |-> Sq(Sub(y[i], m))]))

\* the r2 statistic and the residuals of a prediction predic of y
Statistics(predic, y) ==
    <<RSquared(SumSqDiff(predic, y), Sst(y, MeanOf(y))), VecSub(y, predic)>>

\* coefficients b fitted on the design matrix x: (b, r2, resid)
Fitted(b, x, y) == <<b>> \o Statistics(DotVM(b, x), y)

\* MeanRegressionModel.get
MeanGet(self, y) == Returned(y, Fitted(DotMV(self.x_hat, y), self.x, y))

\* b with the intercept dropped: b[1:]
DropIntercept(r) == <<Tail(r[1]), r[2], r[3]>>

\* LinearRegressionModel.get: returns b[1:]
LinearGet(self, y) ==
    Returned(y, DropIntercept(Fitted(DotMV(self.x_hat, y), self.x, y)))

\* b1 = b1 - min(b1)
ShiftMin(b1) == VecSubS(b1, MinOf(b1))

\* if sum(b1_hat) == 0: b1_hat += 1E-06 (b1_hat is the method's own array)
GainFloor(b1_hat) == IF Eq(SumSeq(b1_hat), Zero) THEN VecAddS(b1_hat, Eps) ELSE b1_hat

\* b1_hat of BilinearRegressionModel.get
BilinearGain(self, y) ==
    GainFloor(DotMV(Transpose(self.x1), ShiftMin(DotMV(self.x1_hat, y))))

\* x3 = concatenate((ones, x2 * b1_hat))
BilinearDesign(x2, b1_hat) ==
    WithOnes(Arr([i \in 1..Rows(x2) |->
                    Arr([j \in 1..Cols(x2) |-> Mul(x2[i][j], b1_hat[j])])]))

\* the second stage, given inv(x3 x3^T) or its failure
BilinearSolve(i, x3, y) ==
    IF i.raised THEN Thrown(y, "LinAlgError")
    ELSE Returned(y, DropIntercept(Fitted(DotMV(DotMM(i.m, x3), y), x3, y)))

BilinearStage2(x3, y) == BilinearSolve(Inv(DotMM(x3, Transpose(x3))), x3, y)

\* BilinearRegressionModel.get: inverts x3 x3^T for every record
BilinearGet(self, y) == BilinearStage2(BilinearDesign(self.x2, BilinearGain(self, y)), y)

\* exp(1j * s) for s a multiple of pi (s is held in units of pi): +1 or -1.
\* For these angles the resultant r is real and every quantity is rational.
ExpI(s) == IF IsFinite(s) /\ s[2] = 1 /\ s[3] = 0 /\ s[1] % 2 # 0 THEN Neg(One) ELSE One

\* angle(r) of a real r, in units of pi
Angle(r) == IF Lt(r, Zero) THEN One ELSE Zero

\* v ** 3 - 4 * (v ** 2) + 3 * v
KappaDenom(v) == Add(Sub(Mul(v, Sq(v)), Mul(FromInt(4), Sq(v))), Mul(FromInt(3), v))

\* 1 / d, or 0 where d == 0
KappaHigh(d) == IF Eq(d, Zero) THEN Zero ELSE Div(One, d)

\* the branches of the concentration estimate
KappaBranch(v) ==
    IF Lt(v, Num(53, 100, 0))
    THEN Add(Add(Mul(FromInt(2), v), Mul(v, Sq(v))),
             Div(Mul(FromInt(5), Mul(v, Sq(Sq(v)))), FromInt(6)))
    ELSE IF Ge(v, Num(53, 100, 0)) /\ Lt(v, Num(85, 100, 0))
    THEN Add(Add(Num(-4, 10, 0), Mul(Num(139, 100, 0), v)),
             Div(Num(43, 100, 0), Sub(One, v)))
    ELSE KappaHigh(KappaDenom(v))

\* if k > 1E8: k = 0
KappaClamp(k) == IF Gt(k, Num(1, 1, 8)) THEN Zero ELSE k

\* the concentration k of CircularTuningModel.get from the resultant length v
Kappa(v) == KappaClamp(KappaBranch(v))

\* if sum(y) == 0: y += 1E-06, on the array passed in
InjectEps(y) == IF Eq(SumSeq(y), Zero) THEN VecAddS(y, Eps) ELSE y

\* y = y / sum(y): a new array
Normalize(y) == VecDivS(y, SumSeq(y))

\* mu = angle(r), v = abs(r) / sum(y), k from v
CircularEstimate(r, total) == <<Angle(r), Kappa(Div(AbsNum(r), total))>>

\* r = inner(y, exp(1j * s)) of the normalized weights y
CircularResultant(s, y) ==
    CircularEstimate(DotVV(y, Arr([i \in 1..Len(s) |-> ExpI(s[i])])), SumSeq(y))

\* CircularTuningModel.get: y = y - min(y) rebinds y to a new array, so the
\* caller's array is left as it was
CircularGet(self, y) ==
    Returned(y, CircularResultant(self.s, Normalize(InjectEps(ShiftMin(y)))))

\* y[y < 0] = 0, on the array passed in
ClipNegative(y) == Arr([i \in 1..Len(y) |-> IF Lt(y[i], Zero) THEN Zero ELSE y[i]])

\* sigma = dot((s - mu) ** 2, y)
GaussianSpread(s, mu, y) ==
    <<mu, DotVV(Arr([i \in 1..Len(s) |-> Sq(Sub(s[i], mu))]), y)>>

\* a faulty variant of GaussianEstimate that centres on the plain mean of the
\* stimuli: the estimate of a one-hot response must tell it from GaussianEstimate
GaussianEstimateUnweighted(s, y) == GaussianSpread(s, MeanOf(s), y)

\* mu = dot(s, y) and sigma, of the normalized weights y
GaussianEstimate(s, y) == GaussianSpread(s, DotVV(s, y), y)

\* a faulty variant of GaussianInPlace that adds to the weights whatever their
\* sum: a second call on the same array must tell it from GaussianInPlace
GaussianInPlaceShift(y) == VecAddS(ClipNegative(y), One)

\* what get leaves in the caller's array: y[y < 0] = 0 and y += 1E-06 write
\* into the array passed in
GaussianInPlace(y) == InjectEps(ClipNegative(y))

\* the rest of the method, from the array as the in-place steps left it
GaussianRest(s, y2) == Returned(y2, GaussianEstimate(s, Normalize(y2)))

\* GaussianTuningModel.get: only y = y / sum(y) rebinds y to a new array
GaussianGet(self, y) == GaussianRest(self.s, GaussianInPlace(y))

\* self.get(y), dispatched on the class of self
Get(self, y) ==
    CASE self.kind = "MeanRegressionModel" -> MeanGet(self, y)
      [] self.kind = "LinearRegressionModel" -> LinearGet(self, y)
      [] self.kind = "BilinearRegressionModel" -> BilinearGet(self, y)
      [] self.kind = "CircularTuningModel" -> CircularGet(self, y)
      [] self.kind = "GaussianTuningModel" -> GaussianGet(self, y)

\* ---------------------------------------------------------------- fit

IsRegression(self) ==
    self.kind \in {"MeanRegressionModel", "LinearRegressionModel", "BilinearRegressionModel"}

IsTuning(self) == self.kind \in {"CircularTuningModel", "GaussianTuningModel"}

\* outer(a, b) of two 1-D arrays
Outer(a, b) == Arr([i \in 1..Len(a) |-> Arr([j \in 1..Len(b) |-> Mul(a[i], b[j])])])

\* inner(v, comps) for a 2-D comps: one inner product per row of comps
Inner(v, c) == Arr([i \in 1..Rows(c) |-> DotVV(v, c[i])])

\* x + y of two 2-D arrays
MatAdd(a, b) == Arr([i \in 1..Rows(a) |-> Arr([j \in 1..Cols(a) |-> Add(a[i][j], b[i][j])])])

\* 2-D array / scalar
MatDivS(a, c) == Arr([i \in 1..Rows(a) |-> VecDivS(a[i], c)])

\* outer(x, inner(b - mean(b), comps))
Trajectory(x, b, c) == Outer(x, Inner(VecSubS(b, MeanOf(b)), c))

\* the term of one record from the two calls of get in the lambda: g1 gives
\* the coefficients, g2 their mean, and outer reads the array afterwards
MapTerm(g1, g2, c) ==
    IF g2.raised # "none" THEN [raised |-> g2.raised, arr |-> g2.arr, val |-> <<>>]
    ELSE [raised |-> "none", arr |-> g2.arr,
          val |-> Outer(g2.arr, Inner(VecSubS(g1.ret[1], MeanOf(g2.ret[1])), c))]

\* the second call of get, on the array as the first call left it
MapSecond(self, g1, c) ==
    IF g1.raised # "none" THEN [raised |-> g1.raised, arr |-> g1.arr, val |-> <<>>]
    ELSE MapTerm(g1, Get(self, g1.arr), c)

\* the map of the aggregated path on one record x:
\* outer(x, inner(self.get(x)[0] - mean(self.get(x)[0]), comps))
MapRecord(self, x, c) == MapSecond(self, Get(self, x), c)

\* a faulty variant of ReduceOp that is neither commutative nor associative:
\* the order of the reduction must tell it from ReduceOp
ReduceLeftHeavy(a, b) == MatAdd(a, MatAdd(b, b))

\* the function given to reduce: lambda x, y: x + y
ReduceOp(a, b) == MatAdd(a, b)

\* a faulty variant of Average that leaves the division out
AverageSkipped(total, count) == total

\* reduce(...) / data.count()
Average(total, count) == MatDivS(total, FromInt(count))

\* a faulty variant of MapValue that reads the first record whatever the key
MapValueFirst(self, d, k) == Get(self, d[1])

\* the generic path on one record: data.mapValues(lambda x: self.get(x))
MapValue(self, d, k) == Get(self, d[k])

\* what the generic path returns: betas, stats, resid split from the triples
\* (RegressionModel.fit), or the values of get as they are (TuningModel.fit)
FitReturned(self, res) ==
    IF IsRegression(self)
    THEN [betas |-> [k \in DOMAIN res |-> res[k][1]],
          stats |-> [k \in DOMAIN res |-> res[k][2]],
          resid |-> [k \in DOMAIN res |-> res[k][3]],
          params |-> <<>>, traj |-> <<>>]
    ELSE [betas |-> <<>>, stats |-> <<>>, resid |-> <<>>, params |-> res, traj |-> <<>>]

\* ----------------------------------------------------------- registry

TUNING_MODELS ==
    [circular |-> "CircularTuningModel", gaussian |-> "GaussianTuningModel"]

REGRESSION_MODELS ==
    [linear |-> "LinearRegressionModel", bilinear |-> "BilinearRegressionModel",
     mean |-> "MeanRegressionModel"]

\* calling the class cls on modelfile
Construct(cls, modelfile) ==
    CASE cls = "MeanRegressionModel" -> MeanRegressionModel(modelfile)
      [] cls = "LinearRegressionModel" -> LinearRegressionModel(modelfile)
      [] cls = "BilinearRegressionModel" -> BilinearRegressionModel(modelfile)
      [] OTHER -> TuningModel(cls, modelfile)

\* a faulty variant of RegressionModelLoad that falls back to the linear model
\* for a name it does not know
RegressionModelLoadDefault(modelfile, regressmode) ==
    Construct(IF regressmode \in DOMAIN REGRESSION_MODELS
              THEN REGRESSION_MODELS[regressmode] ELSE "LinearRegressionModel", modelfile)

\* RegressionModel.load: REGRESSION_MODELS[regressmode](modelfile); the lookup
\* of a missing key raises KeyError before any constructor runs
RegressionModelLoad(modelfile, regressmode) ==
    IF regressmode \notin DOMAIN REGRESSION_MODELS THEN Raised("KeyError")
    ELSE Construct(REGRESSION_MODELS[regressmode], modelfile)

\* TuningModel.load: TUNING_MODELS[tuningmode](modelfile)
TuningModelLoad(modelfile, tuningmode) ==
    IF tuningmode \notin DOMAIN TUNING_MODELS THEN Raised("KeyError")
    ELSE Construct(TUNING_MODELS[tuningmode], modelfile)

\* the number of samples a response vector must have for self
Samples(self) ==
    IF self.kind = "BilinearRegressionModel" THEN Cols(self.x1)
    ELSE IF IsTuning(self) THEN Len(self.s)
    ELSE Cols(self.x)

\* ------------------------------------------------------------- inputs

\* largest response value a caller passes to get (responses are -1..MaxVal)
MaxVal == 2

\* most consecutive calls of get on one array
MaxCalls == 2

\* most records in a collection passed to fit
MaxRecords == 3

\* design matrices (rows are predictors, columns samples): the example of the
\* documentation, indicator rows, a row of equal entries (collinear with the
\* intercept), a row that sums to zero, a zero row, two predictors over
\* three samples
DesignMatrices ==
    { << <<1, 1>>, <<0, 1>> >>,
      << <<1, 0>>, <<0, 1>> >>,
      << <<1, -1>> >>,
      << <<1, 1, 0>>, <<0, 0, 1>> >>,
      << <<1, 0, 1>>, <<0, 1, 1>> >>,
      << <<0, 1, 2>> >>,
      << <<1, 1, 1>> >>,
      << <<0, 0, 0>> >> }

\* stimulus vectors (for circular tuning, angles in units of pi)
Stimuli == { <<0, 1>>, <<1, 1>>, <<0, 1, 2>>, <<1, 2, 4>> }

\* pairs (x1, x2) of design matrices for bilinear regression
BilinearFiles ==
    { << << <<1, 0>>, <<0, 1>> >>, << <<1, -1>> >> >>,
      << << <<1, 1>>, <<0, 1>> >>, << <<1, -1>> >> >>,
      << << <<1, 0>>, <<0, 1>> >>, << <<1, 1>>, <<0, 1>> >> >>,
      << << <<1, 1, 0>>, <<0, 0, 1>> >>, << <<0, 1, 2>> >> >>,
      << << <<1, 1, 0>>, <<0, 0, 1>> >>, << <<1, 1, 1>> >> >>,
      << << <<1, 1, 0>>, <<0, 0, 1>> >>, << <<1, 0, 1>>, <<0, 1, 1>> >> >>,
      << << <<1, 0, 1>>, <<0, 1, 1>> >>, << <<0, 1, 2>> >> >>,
      << << <<0, 1, 2>> >>, << <<1, 0, 1>>, <<0, 1, 1>> >> >>,
      << << <<1, 1, 1>> >>, << <<0, 1, 2>> >> >>,
      << << <<1, 1, 0>>, <<0, 1, 2>> >>, << <<0, 0, 1>> >> >>,
      << << <<0, 0, 0>> >>, << <<0, 1, 2>> >> >> }

\* the model files a caller may pass for a model name
ModelFiles(name) ==
    IF name \in DOMAIN TUNING_MODELS THEN Stimuli
    ELSE IF name = "bilinear" THEN BilinearFiles
    ELSE DesignMatrices

\* the names a caller may ask for: the registered ones and others
ModelNames == {"linear", "bilinear", "mean", "circular", "gaussian", "Linear", "poisson", ""}

\* response vectors of n samples
Responses(n) == {VecFloat(v) : v \in [1..n -> (-1)..MaxVal]}

\* the response vectors of the records given to fit: constant, rising, and
\* one with a negative and a zero value
FitResponses(n) ==
    { Arr([i \in 1..n |-> One]), Arr([i \in 1..n |-> FromInt(i)]),
      Arr([i \in 1..n |-> FromInt(i - 2)]) }

\* the response vectors in a fixed order
FitResponseList(n) ==
    << Arr([i \in 1..n |-> One]), Arr([i \in 1..n |-> FromInt(i)]),
       Arr([i \in 1..n |-> FromInt(i - 2)]) >>

\* collections of N <= MaxRecords records, keys 1..N: N records with the same
\* response, and N records that run through the responses in turn
Collections(n) ==
    UNION { {[k \in 1..N |-> v] : v \in FitResponses(n)}
            \cup {[k \in 1..N |-> FitResponseList(n)[((k - 1) % 3) + 1]]}
            : N \in 1..MaxRecords }

\* the number of coefficients get returns
NumCoef(self) ==
    IF self.kind = "BilinearRegressionModel" THEN Rows(self.x2)
    ELSE IF self.kind = "LinearRegressionModel" THEN Rows(self.x) - 1
    ELSE Rows(self.x)

\* components over k coefficients: one row, and two rows
Components(k) ==
    { <<Arr([j \in 1..k |-> FromInt(j)])>>,
      Arr([i \in 1..2 |-> Arr([j \in 1..k |-> FromInt(IF i = j THEN 1 ELSE -1)])]) }

\* -------------------------------------------------------------- state

VARIABLES
    pc,        \* "start", "failed" (load raised), "ready", or the stage of a fit
    loaded,    \* the load call made: family, name, exception raised
    model,     \* the model instance load returned (NoModel before / on failure)
    y,         \* the caller's response array (<<>>: none yet)
    yBefore,   \* the content of y when the latest get(y) was entered
    calls,     \* what each consecutive get(y) on this array gave, oldest first
    data,      \* the collection passed to fit: key -> response array
    dataIn,    \* the content of data when fit was entered
    comps,     \* the components passed to fit (<<>>: none)
    pending,   \* keys of the records not yet mapped
    result,    \* key -> value of get, for the records mapped so far
    partials,  \* the partial sums of the reduce, as a bag
    fitOut     \* what fit returned

vars == <<pc, loaded, model, y, yBefore, calls, data, dataIn, comps, pending,
          result, partials, fitOut>>

getVars == <<y, yBefore, calls>>

fitVars == <<data, dataIn, comps, pending, result, partials, fitOut>>

NoLoad == [family |-> "none", name |-> "", raised |-> "none"]

NoOutput == [betas |-> <<>>, stats |-> <<>>, resid |-> <<>>, params |-> <<>>, traj |-> <<>>]

Init ==
    /\ pc = "start"
    /\ loaded = NoLoad
    /\ model = NoModel
    /\ y = <<>>
    /\ yBefore = <<>>
    /\ calls = <<>>
    /\ data = <<>>
    /\ dataIn = <<>>
    /\ comps = <<>>
    /\ pending = {}
    /\ result = <<>>
    /\ partials = EmptyBag
    /\ fitOut = NoOutput

\* RegressionModel.load(modelfile, name) or TuningModel.load(modelfile, name)
Loaded(family, name, r) ==
    /\ pc = "start"
    /\ loaded' = [family |-> family, name |-> name, raised |-> r.raised]
    /\ model' = r.model
    /\ pc' = IF r.raised = "none" THEN "ready" ELSE "failed"
    /\ UNCHANGED <<getVars, fitVars>>

Load(family, name, modelfile) ==
    Loaded(family, name, IF family = "regression" THEN RegressionModelLoad(modelfile, name)
                         ELSE TuningModelLoad(modelfile, name))

\* the caller takes a fresh response array
NewArray(v) ==
    /\ pc = "ready"
    /\ y = <<>>
    /\ y' = v
    /\ UNCHANGED <<pc, loaded, model, yBefore, calls, fitVars>>

\* the call ends: g.arr is left in the caller's array, the outcome is recorded
GetReturns(g) ==
    /\ y' = g.arr
    /\ calls' = Append(calls, [raised |-> g.raised, ret |-> g.ret, self |-> model])
    /\ yBefore' = y
    /\ UNCHANGED <<pc, loaded, model, fitVars>>

\* model.get(y) on the caller's array
CallGet ==
    /\ pc = "ready"
    /\ y # <<>>
    /\ Len(calls) < MaxCalls
    /\ GetReturns(Get(model, y))

\* fit(data): the generic path starts
StartFit(d) ==
    /\ pc = "ready"
    /\ pc' = "fit"
    /\ data' = d
    /\ dataIn' = d
    /\ comps' = <<>>
    /\ pending' = DOMAIN d
    /\ result' = <<>>
    /\ UNCHANGED <<loaded, model, getVars, partials, fitOut>>

\* the outcome g of get on the record of key k is taken into the result
Mapped(k, g) ==
    /\ data' = [data EXCEPT ![k] = g.arr]
    /\ pc' = IF g.raised # "none" THEN "raised" ELSE pc
    /\ pending' = IF g.raised # "none" THEN pending ELSE pending \ {k}
    /\ result' = IF g.raised # "none" THEN result ELSE result @@ (k :> g.ret)
    /\ UNCHANGED <<loaded, model, getVars, dataIn, comps, partials, fitOut>>

\* get is applied to one record, in any order; an exception ends the fit
FitRecord(k) ==
    /\ pc = "fit"
    /\ k \in pending
    /\ Mapped(k, MapValue(model, data, k))

\* every record is mapped: fit returns
FitReturn ==
    /\ pc = "fit"
    /\ pending = {}
    /\ pc' = "returned"
    /\ fitOut' = FitReturned(model, result)
    /\ UNCHANGED <<loaded, model, getVars, data, dataIn, comps, pending, result, partials>>

\* fit(data, comps): the aggregated path of RegressionModel starts
StartTraj(d, c) ==
    /\ pc = "ready"
    /\ IsRegression(model)
    /\ pc' = "traj"
    /\ data' = d
    /\ dataIn' = d
    /\ comps' = c
    /\ pending' = DOMAIN d
    /\ partials' = EmptyBag
    /\ UNCHANGED <<loaded, model, getVars, result, fitOut>>

\* the term m of the record of key k joins the partial sums
TermMapped(k, m) ==
    /\ data' = [data EXCEPT ![k] = m.arr]
    /\ pc' = IF m.raised # "none" THEN "raised" ELSE pc
    /\ pending' = IF m.raised # "none" THEN pending ELSE pending \ {k}
    /\ partials' = IF m.raised # "none" THEN partials ELSE partials (+) SetToBag({m.val})
    /\ UNCHANGED <<loaded, model, getVars, dataIn, comps, result, fitOut>>

\* one record is mapped to its term, in any order
TrajMap(k) ==
    /\ pc = "traj"
    /\ k \in pending
    /\ TermMapped(k, MapRecord(model, data[k], comps))

\* reduce combines any two of the partial results
TrajReduce(a, b) ==
    /\ pc = "traj"
    /\ a = b => CopiesIn(a, partials) >= 2
    /\ partials' = ((partials (-) SetToBag({a})) (-) SetToBag({b})) (+) SetToBag({ReduceOp(a, b)})
    /\ UNCHANGED <<pc, loaded, model, getVars, data, dataIn, comps, pending, result, fitOut>>

\* one result is left: it is divided by data.count() and returned
TrajReturn ==
    /\ pc = "traj"
    /\ pending = {}
    /\ BagCardinality(partials) = 1
    /\ pc' = "returned"
    /\ fitOut' = [NoOutput EXCEPT !.traj =
                     Average(CHOOSE p \in BagToSet(partials) : TRUE, Cardinality(DOMAIN data))]
    /\ UNCHANGED <<loaded, model, getVars, data, dataIn, comps, pending, result, partials>>

LoadAny ==
    pc = "start" /\ \E family \in {"regression", "tuning"}, name \in ModelNames :
        \E modelfile \in ModelFiles(IF family = "tuning" /\ name \notin DOMAIN TUNING_MODELS
                                     THEN "gaussian"
                                     ELSE IF family = "regression" /\ name \in DOMAIN TUNING_MODELS
                                     THEN "poisson" ELSE name) :
            Load(family, name, modelfile)

NewArrayAny == pc = "ready" /\ \E v \in Responses(Samples(model)) : NewArray(v)

StartFitAny == pc = "ready" /\ \E d \in Collections(Samples(model)) : StartFit(d)

StartTrajAny ==
    /\ pc = "ready"
    /\ IsRegression(model)
    /\ \E d \in Collections(Samples(model)), c \in Components(NumCoef(model)) : StartTraj(d, c)

FitRecordAny == pc = "fit" /\ \E k \in pending : FitRecord(k)

TrajMapAny == pc = "traj" /\ \E k \in pending : TrajMap(k)

TrajReduceAny == pc = "traj" /\ \E a, b \in BagToSet(partials) : TrajReduce(a, b)

\* load, then calls of get on an array of the caller
NextGet == LoadAny \/ NewArrayAny \/ CallGet

SpecGet == Init /\ [][NextGet]_vars

\* load, then the generic path of fit
NextFit == LoadAny \/ StartFitAny \/ FitRecordAny \/ FitReturn

SpecFit == Init /\ [][NextFit]_vars

\* load, then the aggregated path of fit
NextTraj == LoadAny \/ StartTrajAny \/ TrajMapAny \/ TrajReduceAny \/ TrajReturn

SpecTraj == Init /\ [][NextTraj]_vars

Next == NextGet \/ NextFit \/ NextTraj

Spec == Init /\ [][Next]_vars

\* --------------------------------------------------------- properties

\* the outcome of the last call of get
LastCall == calls[Len(calls)]

IsConstant(v) == \A i \in 1..Len(v) : v[i] = v[1]

AllZero(v) == \A i \in 1..Len(v) : v[i] = Zero

IsOneHot(v, j) == \A i \in 1..Len(v) : v[i] = (IF i = j THEN One ELSE Zero)

\* m m^T, the Gram matrix of the rows of m
Gram(m) == DotMM(m, Transpose(m))

FullRowRank(x) == Det(Gram(x)) # Zero

\* v is a linear combination of the rows of x, for x of full row rank: the
\* rows of x together with v are linearly dependent
InRowSpace(v, x) == Det(Gram(Append(x, v))) = Zero

\* the rows of x are 0/1 indicators of non-empty, pairwise disjoint column sets
DisjointIndicators(x) ==
    /\ \A i \in 1..Rows(x) : \A j \in 1..Cols(x) : x[i][j] \in {Zero, One}
    /\ \A i \in 1..Rows(x) : \E j \in 1..Cols(x) : x[i][j] = One
    /\ \A j \in 1..Cols(x) : \A i1, i2 \in 1..Rows(x) :
          (x[i1][j] = One /\ x[i2][j] = One) => i1 = i2

\* C1: for every model variant and every response vector y, the caller's
\* array holds the same values after get(y) returns as before the call.
C1_CallerArrayKept == calls # <<>> => y = yBefore

\* C2: two calls of get in a row on the same model instance and the same
\* array give identical results (the same value returned or the same
\* exception raised), and the instance is the same at both calls.
C2_GetTwiceSame == \A i \in 1..Len(calls) : calls[i] = calls[1]

\* two calls were made on an array whose weights summed to zero, which the
\* Gaussian model overwrote with 1E-06 during the first call
C2_Witness ==
    /\ Len(calls) >= 2
    /\ model.kind = "GaussianTuningModel"
    /\ \A i \in 1..Len(y) : y[i] = Eps

\* C3: for a regression model and a constant response vector, get returns
\* a fit statistic that is exactly 0 and raises nothing.
C3_ConstantGivesZero ==
    (calls # <<>> /\ IsRegression(model) /\ IsConstant(yBefore))
        => (LastCall.raised = "none" /\ LastCall.ret[2] = Zero)

C5_GetNeverRaises == IsRegression(model) => \A i \in 1..Len(calls) : calls[i].raised = "none"

\* the class a model name stands for
ClassOf(family, name) ==
    IF family = "regression"
    THEN (CASE name = "linear" -> "LinearRegressionModel"
            [] name = "bilinear" -> "BilinearRegressionModel"
            [] name = "mean" -> "MeanRegressionModel"
            [] OTHER -> "none")
    ELSE (CASE name = "circular" -> "CircularTuningModel"
            [] name = "gaussian" -> "GaussianTuningModel"
            [] OTHER -> "none")

\* C9: load accepts exactly "linear", "bilinear", "mean" (RegressionModel)
\* and "circular", "gaussian" (TuningModel) and constructs the variant of
\* that name; any other name raises at load, no model object exists and no
\* record is fitted.
C9_LoadByName ==
    pc # "start" =>
        IF ClassOf(loaded.family, loaded.name) = "none"
        THEN /\ loaded.raised = "KeyError"
             /\ pc = "failed"
             /\ model = NoModel
             /\ calls = <<>> /\ data = <<>> /\ fitOut = NoOutput
        ELSE /\ loaded.raised # "KeyError"
             /\ loaded.raised = "none" => model.kind = ClassOf(loaded.family, loaded.name)

\* a name that differs from an accepted one in case only was refused
C9_Witness == pc = "failed" /\ loaded.name = "Linear" /\ loaded.raised = "KeyError"

\* C10: Gaussian tuning of a response that is one-hot at index j returns
\* mu = s[j] and sigma = 0.
C10_OneHot ==
    (calls # <<>> /\ model.kind = "GaussianTuningModel")
        => \A j \in 1..Len(yBefore) :
              IsOneHot(yBefore, j) => LastCall.ret = <<model.s[j], Zero>>

\* a one-hot response at an index whose stimulus is not zero was estimated
C10_Witness ==
    /\ calls # <<>>
    /\ model.kind = "GaussianTuningModel"
    /\ \E j \in 1..Len(yBefore) : IsOneHot(yBefore, j) /\ model.s[j] # Zero

\* the number of records of the collection given to fit
Count == Cardinality(DOMAIN dataIn)

\* C7: in the generic path the outputs hold exactly the keys of the input
\* collection, and the value under each key is the matching part of get on that
\* key's own response vector, whatever the other records and the order of
\* processing.
C7_FitPerRecord ==
    (pc = "returned" /\ comps = <<>>) =>
        IF IsRegression(model)
        THEN /\ DOMAIN fitOut.betas = DOMAIN dataIn
             /\ DOMAIN fitOut.stats = DOMAIN dataIn
             /\ DOMAIN fitOut.resid = DOMAIN dataIn
             /\ \A k \in DOMAIN dataIn :
                   <<fitOut.betas[k], fitOut.stats[k], fitOut.resid[k]>>
                       = Get(model, dataIn[k]).ret
        ELSE /\ DOMAIN fitOut.params = DOMAIN dataIn
             /\ \A k \in DOMAIN dataIn : fitOut.params[k] = Get(model, dataIn[k]).ret

\* a generic fit returned for records that differ from each other and whose
\* results differ
C7_Witness ==
    /\ pc = "returned" /\ comps = <<>>
    /\ Count >= 2
    /\ \E k1, k2 \in DOMAIN dataIn : dataIn[k1] # dataIn[k2] /\ result[k1] # result[k2]

\* the term of one record as the specification writes it:
\* outer(response, inner(b - mean(b), components)), b the coefficients of get
RecordTerm(self, x, c) == Trajectory(x, Get(self, x).ret[1], c)

\* the terms of records 1..n summed one after the other
RECURSIVE SumInOrder(_, _, _, _)
SumInOrder(self, d, c, n) ==
    IF n = 1 THEN RecordTerm(self, d[1], c)
    ELSE MatAdd(SumInOrder(self, d, c, n - 1), RecordTerm(self, d[n], c))

====
